---- MODULE Spec2Model ----
(***************************************************************************)
(* Blogicum: the visibility queries, the pagination helper and the view    *)
(* controllers of blogicum/core/utils.py and blogicum/blog/views.py.       *)
(*                                                                         *)
(* The database is the state: posts and comments keyed by primary key.     *)
(* Every request is one atomic step.  resp describes the last step: the    *)
(* request and its response when the step was a request of a route named   *)
(* in trace, and blank after any other step.  The specifications differ in *)
(* the routes they trace:                                                  *)
(*   SpecDetail   the detail route;                                        *)
(*   SpecPost     post create, update and delete;                          *)
(*   SpecComment  comment creation;                                        *)
(*   SpecList     the three list routes (with pagination), on stores of    *)
(*                up to MaxListPosts posts.                                *)
(***************************************************************************)
EXTENDS Integers, Sequences, FiniteSets, TLC

VARIABLES
    posts,          \* Post rows: pk -> [author, category, is_published, pub_date, title]
    comments,       \* Comment rows: pk -> [post, author]
    nextPostId,     \* next primary key of Post
    nextCommentId,  \* next primary key of Comment
    sent,           \* number of send_mail calls made so far
    now,            \* the clock read by timezone.now()
    trace,          \* the routes whose requests are recorded
    resp            \* the request and response of the last step, if traced

vars == <<posts, comments, nextPostId, nextCommentId, sent, now, trace, resp>>

----------------------------------------------------------------------------
(* Bounds *)

MaxPosts == 1
MaxComments == 1
MaxTime == 1
MaxListPosts == 21
MaxOthers == 2
MaxHidden == 3

(* per_page=10 of the list views *)
PerPage == 10

----------------------------------------------------------------------------
(* Users, categories and form inputs *)

Users == {"u1", "u2"}
Anonymous == "anon"
Viewers == Users \cup {Anonymous}
Usernames == Users \cup {"ghost"}

Email(u) == IF u = "u1" THEN "u1@example.org" ELSE "u2@example.org"

(* Category rows: slug -> is_published.  Categories are read-only here. *)
Category == [c1 |-> TRUE, c2 |-> FALSE]
Slugs == DOMAIN Category \cup {"nocat"}

NoForm == [title |-> "", pub_date |-> 0, is_published |-> FALSE, category |-> ""]

(* Cleaned data of a valid PostEditForm: a public post, a scheduled one,   *)
(* a draft and a post in an unpublished category.                          *)
PostForms ==
    { [title |-> "t1", pub_date |-> 0, is_published |-> TRUE, category |-> "c1"],
      [title |-> "t2", pub_date |-> MaxTime, is_published |-> TRUE, category |-> "c1"],
      [title |-> "t1", pub_date |-> 0, is_published |-> FALSE, category |-> "c1"],
      [title |-> "t2", pub_date |-> 0, is_published |-> TRUE, category |-> "c2"] }

(* A form request: GET, POST with invalid data, POST with valid data. *)
FormInputs ==
    { [method |-> "GET", valid |-> FALSE],
      [method |-> "POST", valid |-> FALSE],
      [method |-> "POST", valid |-> TRUE] }

Min(a, b) == IF a <= b THEN a ELSE b

Range(s) == { s[i] : i \in 1..Len(s) }

----------------------------------------------------------------------------
(* core/utils.py: the visibility queries *)

TieBreaks == {"asc", "desc"}

(* Count("comments") of one post *)
CommentCount(id) == Cardinality({ c \in DOMAIN comments : comments[c].post = id })

(* order_by("-pub_date"): newest first; rows of equal pub_date come in the *)
(* storage's order, which is either direction of the primary key.          *)
Before(a, b, tb) ==
    \/ posts[a].pub_date > posts[b].pub_date
    \/ /\ posts[a].pub_date = posts[b].pub_date
       /\ IF tb = "asc" THEN a <= b ELSE a >= b

RECURSIVE InsertOrdered(_, _, _)
InsertOrdered(x, s, tb) ==
    IF s = <<>> THEN <<x>>
    ELSE IF Before(x, Head(s), tb) THEN <<x>> \o s
    ELSE <<Head(s)>> \o InsertOrdered(x, Tail(s), tb)

RECURSIVE OrderByPubDateDesc(_, _)
OrderByPubDateDesc(S, tb) ==
    IF S = {} THEN <<>>
    ELSE LET x == CHOOSE y \in S : TRUE
         IN  InsertOrdered(x, OrderByPubDateDesc(S \ {x}, tb), tb)

Row(id) == [pk |-> id, comment_count |-> CommentCount(id)]

Annotate(s) == [i \in 1..Len(s) |-> Row(s[i])]

post_all_query(tb) == Annotate(OrderByPubDateDesc(DOMAIN posts, tb))

(* Variant: a post dated at the very instant of the query is left out. *)
PublishedFilterStrict(p, t) ==
    /\ p.pub_date < t
    /\ p.is_published
    /\ Category[p.category]

PublishedFilter(p, t) ==
    /\ p.pub_date <= t
    /\ p.is_published
    /\ Category[p.category]

post_published_query(t, tb) ==
    LET Keep(r) == PublishedFilter(posts[r.pk], t)
    IN  SelectSeq(post_all_query(tb), Keep)

(* Variant: the post's own published flag is not looked at. *)
get_post_data_any_flag(post_id, t) ==
    IF /\ post_id \in DOMAIN posts
       /\ posts[post_id].pub_date <= t
       /\ Category[posts[post_id].category]
    THEN [found |-> TRUE, pk |-> post_id]
    ELSE [found |-> FALSE, pk |-> 0]

(* get_post_data: the post, or 404.  found = FALSE is Http404. *)
get_post_data(post_id, t) ==
    IF /\ post_id \in DOMAIN posts
       /\ posts[post_id].pub_date <= t
       /\ posts[post_id].is_published
       /\ Category[posts[post_id].category]
    THEN [found |-> TRUE, pk |-> post_id]
    ELSE [found |-> FALSE, pk |-> 0]

FilterPk(qs, id) ==
    LET Keep(r) == r.pk = id
    IN  SelectSeq(qs, Keep)

FilterAuthor(qs, u) ==
    LET Keep(r) == posts[r.pk].author = u
    IN  SelectSeq(qs, Keep)

FilterCategory(qs, c) ==
    LET Keep(r) == posts[r.pk].category = c
    IN  SelectSeq(qs, Keep)

(* The queryset method with_comment_count(): annotates the rows again. *)
with_comment_count(qs) == [i \in 1..Len(qs) |-> Row(qs[i].pk)]

----------------------------------------------------------------------------
(* core/utils.py: get_paginated_page, with Paginator.get_page *)

NoParam == [present |-> FALSE, text |-> <<>>]
Param(text) == [present |-> TRUE, text |-> text]

(* Values of request.GET.get('page'): None when the parameter is absent *)
PageParams ==
    { NoParam, Param(<<>>), Param(<<"x">>), Param(<<"2", "x">>),
      Param(<<"1", ".", "0">>), Param(<<"0">>), Param(<<"-", "1">>),
      Param(<<"1">>), Param(<<"2">>), Param(<<"+", "3">>), Param(<<" ", "3">>),
      Param(<<"0", "2">>), Param(<<"9", "9">>) }

DigitChars == {"0", "1", "2", "3", "4", "5", "6", "7", "8", "9"}

DigitValue(c) ==
    CASE c = "0" -> 0 [] c = "1" -> 1 [] c = "2" -> 2 [] c = "3" -> 3
      [] c = "4" -> 4 [] c = "5" -> 5 [] c = "6" -> 6 [] c = "7" -> 7
      [] c = "8" -> 8 [] c = "9" -> 9

RECURSIVE LStrip(_)
LStrip(s) == IF s # <<>> /\ Head(s) = " " THEN LStrip(Tail(s)) ELSE s

RECURSIVE RStrip(_)
RStrip(s) ==
    IF s # <<>> /\ s[Len(s)] = " " THEN RStrip(SubSeq(s, 1, Len(s) - 1)) ELSE s

RECURSIVE DecimalValue(_, _)
DecimalValue(s, acc) ==
    IF s = <<>> THEN acc
    ELSE DecimalValue(Tail(s), 10 * acc + DigitValue(Head(s)))

(* int(text): blanks around, an optional sign, then decimal digits only *)
ParseInt(text) ==
    LET s == RStrip(LStrip(text))
        signed == s # <<>> /\ Head(s) \in {"+", "-"}
        body == IF signed THEN Tail(s) ELSE s
        ok == body # <<>> /\ \A i \in 1..Len(body) : body[i] \in DigitChars
        v == IF ok THEN DecimalValue(body, 0) ELSE 0
    IN  [ok |-> ok, value |-> IF signed /\ Head(s) = "-" THEN 0 - v ELSE v]

(* Paginator.num_pages, with orphans = 0 and allow_empty_first_page *)
NumPages(count, per_page) ==
    IF count = 0 THEN 1 ELSE (count + per_page - 1) \div per_page

(* Paginator.validate_number: the number, or the exception raised *)
validate_number(param, num_pages) ==
    LET n == ParseInt(param.text) IN
    IF ~param.present \/ ~n.ok THEN [raised |-> "PageNotAnInteger", number |-> 0]
    ELSE IF n.value < 1 THEN [raised |-> "EmptyPage", number |-> 0]
    ELSE IF n.value > num_pages THEN [raised |-> "EmptyPage", number |-> 0]
    ELSE [raised |-> "none", number |-> n.value]

(* Paginator.page: rows bottom+1 .. top of the object list *)
Page(object_list, number, per_page) ==
    LET count == Len(object_list)
        bottom == (number - 1) * per_page
        top == IF bottom + per_page >= count THEN count ELSE bottom + per_page
    IN  [number |-> number,
         num_pages |-> NumPages(count, per_page),
         object_list |-> SubSeq(object_list, bottom + 1, top)]

(* Variant: EmptyPage gives the first page. *)
get_page_first(object_list, param, per_page) ==
    LET num_pages == NumPages(Len(object_list), per_page)
        v == validate_number(param, num_pages)
        number == CASE v.raised = "PageNotAnInteger" -> 1
                    [] v.raised = "EmptyPage" -> 1
                    [] OTHER -> v.number
    IN  Page(object_list, number, per_page)

(* Paginator.get_page: PageNotAnInteger gives page 1, EmptyPage the last *)
get_page(object_list, param, per_page) ==
    LET num_pages == NumPages(Len(object_list), per_page)
        v == validate_number(param, num_pages)
        number == CASE v.raised = "PageNotAnInteger" -> 1
                    [] v.raised = "EmptyPage" -> num_pages
                    [] OTHER -> v.number
    IN  Page(object_list, number, per_page)

get_paginated_page(queryset, param, per_page) == get_page(queryset, param, per_page)

----------------------------------------------------------------------------
(* Responses *)

NoMail == [to |-> "", title |-> "", by |-> "", post |-> 0, delivered |-> FALSE]
NoRow == [pk |-> 0, comment_count |-> 0]
NoUrl == [name |-> "", post_id |-> 0, username |-> ""]

Blank ==
    [view |-> "none", viewer |-> Anonymous, post |-> 0,
     method |-> "GET", valid |-> FALSE,
     status |-> "none", target |-> NoUrl,
     object |-> NoRow, flag |-> FALSE, t |-> 0,
     mail |-> NoMail]

Request(view, v, id, inp) ==
    [Blank EXCEPT !.view = view, !.viewer = v, !.post = id,
                  !.method = inp.method, !.valid = inp.valid]

(* What a request leaves in resp *)
Log(r) == IF r.view \in trace THEN r ELSE Blank

Http404(rq) == [rq EXCEPT !.status = "notfound"]
Render(rq) == [rq EXCEPT !.status = "ok"]
Redirect(rq, where) == [rq EXCEPT !.status = "redirect", !.target = where]
ServerError(rq) == [rq EXCEPT !.status = "error"]

Get == [method |-> "GET", valid |-> FALSE]

----------------------------------------------------------------------------
(* blog/views.py: the detail route *)

(* Variant: the category is not looked at. *)
check_post_data_no_category(post_data, t) ==
    /\ post_data.is_published
    /\ post_data.pub_date <= t

(* PostDetailView.check_post_data, on the row read by get_queryset *)
check_post_data(post_data, t) ==
    /\ post_data.is_published
    /\ post_data.pub_date <= t
    /\ Category[post_data.category]

(* Variant: the author gets the published posts too. *)
DetailQuerysetPublishedOnly(v, id, t) ==
    FilterPk(post_published_query(t, "asc"), id)

(* PostDetailView.get_queryset, after the post was found.  The result has *)
(* at most one row, so the order of equal dates plays no part.            *)
DetailQueryset(v, id, t) ==
    IF posts[id].author = v
    THEN FilterPk(post_all_query("asc"), id)
    ELSE FilterPk(post_published_query(t, "asc"), id)

(* GET posts/<post_id>/ : get_queryset reads the clock (resp.t), and       *)
(* check_post_data reads it again, possibly later (the clock after the     *)
(* step).                                                                  *)
PostDetailView(v, id) ==
    LET rq == [Request("detail", v, id, Get) EXCEPT !.t = now] IN
    /\ UNCHANGED <<posts, comments, nextPostId, nextCommentId, sent, trace>>
    /\ IF id \notin DOMAIN posts
       THEN /\ resp' = Log(Http404(rq))
            /\ UNCHANGED now
       ELSE LET qs == DetailQueryset(v, id, now) IN
            IF qs = <<>>
            THEN /\ resp' = Log(Http404(rq))
                 /\ UNCHANGED now
            ELSE \E t2 \in now..Min(now + 1, MaxTime) :
                 /\ now' = t2
                 /\ resp' = Log([Render(rq) EXCEPT
                                    !.object = qs[1],
                                    !.flag = check_post_data(posts[id], t2)])

----------------------------------------------------------------------------
(* blog/views.py: post create, update and delete *)

LoginUrl == [name |-> "login", post_id |-> 0, username |-> ""]
DetailUrl(id) == [name |-> "blog:post_detail", post_id |-> id, username |-> ""]
ProfileUrl(u) == [name |-> "blog:profile", post_id |-> 0, username |-> u]

(* PostCreateView: LoginRequiredMixin, then CreateView.  A valid POST      *)
(* carries the cleaned data of the form.                                   *)
PostCreateView(v, inp) ==
    LET rq == Request("create", v, 0, inp) IN
    /\ UNCHANGED <<comments, nextCommentId, sent, now, trace>>
    /\ IF v = Anonymous
       THEN /\ resp' = Log(Redirect(rq, LoginUrl))
            /\ UNCHANGED <<posts, nextPostId>>
       ELSE IF inp.method = "GET" \/ ~inp.valid
       THEN /\ resp' = Log(Render(rq))
            /\ UNCHANGED <<posts, nextPostId>>
       ELSE \E data \in PostForms :
            /\ nextPostId <= MaxPosts
            /\ posts' = (nextPostId :> [author |-> v,
                                        category |-> data.category,
                                        is_published |-> data.is_published,
                                        pub_date |-> data.pub_date,
                                        title |-> data.title]) @@ posts
            /\ nextPostId' = nextPostId + 1
            /\ resp' = Log(Redirect([rq EXCEPT !.post = nextPostId], ProfileUrl(v)))

(* Variant: any authenticated user passes. *)
IsOwnerOrUser(post, user) == post.author = user \/ user \in Users

(* The test of PostUpdateView.dispatch and PostDeleteView.dispatch on the  *)
(* object get_object() returned: TRUE lets the request through.            *)
IsOwner(post, user) == post.author = user

(* PostUpdateView: dispatch runs get_object() and the ownership test       *)
(* first, and only then LoginRequiredMixin and UpdateView.                 *)
PostUpdateView(v, id, inp) ==
    LET rq == Request("update", v, id, inp) IN
    /\ UNCHANGED <<comments, nextPostId, nextCommentId, sent, now, trace>>
    /\ IF id \notin DOMAIN posts
       THEN /\ resp' = Log(Http404(rq))
            /\ UNCHANGED posts
       ELSE IF ~IsOwner(posts[id], v)
       THEN /\ resp' = Log(Redirect(rq, DetailUrl(id)))
            /\ UNCHANGED posts
       ELSE IF v = Anonymous
       THEN /\ resp' = Log(Redirect(rq, LoginUrl))
            /\ UNCHANGED posts
       ELSE IF inp.method = "GET" \/ ~inp.valid
       THEN /\ resp' = Log(Render(rq))
            /\ UNCHANGED posts
       ELSE \E data \in PostForms :
            /\ posts' = [posts EXCEPT ![id] =
                            [author |-> posts[id].author,
                             category |-> data.category,
                             is_published |-> data.is_published,
                             pub_date |-> data.pub_date,
                             title |-> data.title]]
            /\ resp' = Log(Redirect(rq, DetailUrl(id)))

Restrict(f, S) == [x \in S |-> f[x]]

(* Deleting a post deletes its comments (the comment's foreign key). *)
CascadeDelete(id) ==
    Restrict(comments, { c \in DOMAIN comments : comments[c].post # id })

(* PostDeleteView: the same dispatch; POST deletes. *)
PostDeleteView(v, id, method) ==
    LET rq == Request("delete", v, id, [method |-> method, valid |-> FALSE]) IN
    /\ UNCHANGED <<nextPostId, nextCommentId, sent, now, trace>>
    /\ IF id \notin DOMAIN posts
       THEN /\ resp' = Log(Http404(rq))
            /\ UNCHANGED <<posts, comments>>
       ELSE IF ~IsOwner(posts[id], v)
       THEN /\ resp' = Log(Redirect(rq, DetailUrl(id)))
            /\ UNCHANGED <<posts, comments>>
       ELSE IF v = Anonymous
       THEN /\ resp' = Log(Redirect(rq, LoginUrl))
            /\ UNCHANGED <<posts, comments>>
       ELSE IF method = "GET"
       THEN /\ resp' = Log(Render(rq))
            /\ UNCHANGED <<posts, comments>>
       ELSE /\ posts' = Restrict(posts, DOMAIN posts \ {id})
            /\ comments' = CascadeDelete(id)
            /\ resp' = Log(Redirect(rq, ProfileUrl(v)))

----------------------------------------------------------------------------
(* blog/views.py: comment creation and the notification *)

(* Variant: fail_silently=False *)
FailLoudly == FALSE

(* fail_silently of the send_mail call *)
FailSilently == TRUE

(* send_mail: one delivery attempt; a transport failure is raised to the   *)
(* caller unless fail_silently.                                            *)
send_mail(msg, transport_ok, fail_silently) ==
    [mail |-> [msg EXCEPT !.delivered = transport_ok],
     raised |-> ~transport_ok /\ ~fail_silently]

(* CommentCreateView.send_author_email *)
send_author_email(v, id, transport_ok) ==
    send_mail([to |-> Email(posts[id].author), title |-> posts[id].title,
               by |-> v, post |-> id, delivered |-> FALSE],
              transport_ok, FailSilently)

(* Variant: every comment notifies. *)
NotifyAlways(post, user) == TRUE

(* The test of CommentCreateView.form_valid that triggers the e-mail *)
NotifyAuthor(post, user) == post.author # user

(* CommentCreateView: dispatch runs get_post_data first, then              *)
(* LoginRequiredMixin and CreateView; form_valid sends the e-mail (the     *)
(* mail transport works or fails) and then saves the comment.              *)
CommentCreateView(v, id, inp) ==
    LET rq == Request("comment", v, id, inp)
        post_data == get_post_data(id, now)
    IN
    /\ UNCHANGED <<posts, nextPostId, now, trace>>
    /\ IF ~post_data.found
       THEN /\ resp' = Log(Http404(rq))
            /\ UNCHANGED <<comments, nextCommentId, sent>>
       ELSE IF v = Anonymous
       THEN /\ resp' = Log(Redirect(rq, LoginUrl))
            /\ UNCHANGED <<comments, nextCommentId, sent>>
       ELSE IF inp.method = "GET" \/ ~inp.valid
       THEN /\ resp' = Log(Render(rq))
            /\ UNCHANGED <<comments, nextCommentId, sent>>
       ELSE /\ nextCommentId <= MaxComments
            /\ IF NotifyAuthor(posts[post_data.pk], v)
               THEN \E transport_ok \in BOOLEAN :
                    LET r == send_author_email(v, post_data.pk, transport_ok) IN
                    /\ sent' = sent + 1
                    /\ IF r.raised
                       THEN /\ resp' = Log(ServerError([rq EXCEPT !.mail = r.mail]))
                            /\ UNCHANGED <<comments, nextCommentId>>
                       ELSE /\ comments' = (nextCommentId :>
                                              [post |-> post_data.pk, author |-> v])
                                           @@ comments
                            /\ nextCommentId' = nextCommentId + 1
                            /\ resp' = Log(Redirect([rq EXCEPT !.mail = r.mail],
                                                    DetailUrl(id)))
               ELSE /\ sent' = sent
                    /\ comments' = (nextCommentId :>
                                      [post |-> post_data.pk, author |-> v])
                                   @@ comments
                    /\ nextCommentId' = nextCommentId + 1
                    /\ resp' = Log(Redirect(rq, DetailUrl(id)))

----------------------------------------------------------------------------
(* blog/views.py: the list routes *)

NoPage == [number |-> 0, num_pages |-> 0, object_list |-> <<>>]

ListBlank ==
    [view |-> "none", viewer |-> Anonymous, name |-> "", param |-> NoParam,
     status |-> "none", queryset |-> <<>>, page_obj |-> NoPage, total_posts |-> 0]

ListRequest(view, v, name, param) ==
    [ListBlank EXCEPT !.view = view, !.viewer = v, !.name = name, !.param = param]

ListPage(rq, qs) ==
    [rq EXCEPT !.status = "ok", !.queryset = qs,
               !.page_obj = get_paginated_page(qs, rq.param, PerPage)]

(* MainPostListView.get_queryset *)
MainQueryset(t, tb) == with_comment_count(post_published_query(t, tb))

(* MainPostListView *)
MainPostListView(v, param) ==
    /\ \E tb \in TieBreaks :
          resp' = Log(ListPage(ListRequest("home", v, "", param), MainQueryset(now, tb)))
    /\ UNCHANGED <<posts, comments, nextPostId, nextCommentId, sent, now, trace>>

(* CategoryPostListView.get_queryset, once the category is found *)
CategoryQueryset(slug, t, tb) ==
    with_comment_count(FilterCategory(MainQueryset(t, tb), slug))

(* CategoryPostListView: the category must exist and be published. *)
CategoryPostListView(v, slug, param) ==
    LET rq == ListRequest("category", v, slug, param) IN
    /\ IF slug \notin DOMAIN Category \/ ~Category[slug]
       THEN resp' = Log(Http404(rq))
       ELSE \E tb \in TieBreaks :
               resp' = Log(ListPage(rq, CategoryQueryset(slug, now, tb)))
    /\ UNCHANGED <<posts, comments, nextPostId, nextCommentId, sent, now, trace>>

(* UserPostsListView.get_queryset, once the user is found *)
ProfileQueryset(v, author, t, tb) ==
    with_comment_count(
        IF author = v
        THEN FilterAuthor(post_all_query(tb), author)
        ELSE FilterAuthor(MainQueryset(t, tb), author))

(* Variant: the count is always that of the published posts. *)
TotalPostsPublished(v, author, t, tb) ==
    Len(FilterAuthor(post_published_query(t, tb), author))

(* context["total_posts"] of UserPostsListView.get_context_data *)
TotalPosts(v, author, t, tb) ==
    IF author = v
    THEN Len(FilterAuthor(post_all_query(tb), author))
    ELSE Len(FilterAuthor(post_published_query(t, tb), author))

(* UserPostsListView *)
UserPostsListView(v, username, param) ==
    LET rq == ListRequest("profile", v, username, param) IN
    /\ IF username \notin Users
       THEN resp' = Log(Http404(rq))
       ELSE \E tb \in TieBreaks :
               resp' = Log([ListPage(rq, ProfileQueryset(v, username, now, tb))
                               EXCEPT !.total_posts = TotalPosts(v, username, now, tb)])
    /\ UNCHANGED <<posts, comments, nextPostId, nextCommentId, sent, now, trace>>

(* A store of n posts for the list routes.  Posts 1..others are u2's and   *)
(* public; the rest are u1's, the first `hidden` of them not public: a     *)
(* draft, a scheduled post or a post in an unpublished category.  Post 1   *)
(* is published at the very instant of the request, and posts 2k and 2k+1  *)
(* share their date.                                                       *)
ListPost(i, others, hidden) ==
    LET hid == i > others /\ i <= others + hidden
        kind == IF hid THEN (i - others) % 3 ELSE 0
    IN  [author |-> IF i <= others THEN "u2" ELSE "u1",
         category |-> IF hid /\ kind = 0 THEN "c2" ELSE "c1",
         is_published |-> ~(hid /\ kind = 1),
         pub_date |-> IF hid /\ kind = 2 THEN 1 ELSE 0 - (i \div 2),
         title |-> IF i % 2 = 0 THEN "t2" ELSE "t1"]

InitList ==
    \E n \in 0..MaxListPosts :
    \E others \in 0..Min(n, MaxOthers) :
    \E hidden \in 0..Min(n - others, MaxHidden) :
        /\ posts = [i \in 1..n |-> ListPost(i, others, hidden)]
        /\ comments = IF n = 0 THEN << >> ELSE (1 :> [post |-> 1, author |-> "u1"])
        /\ nextPostId = n + 1
        /\ nextCommentId = IF n = 0 THEN 1 ELSE 2
        /\ sent = 0
        /\ now = 0
        /\ trace = {"home", "category", "profile"}
        /\ resp = ListBlank

(* The list routes only read: a behaviour of SpecList draws a store and    *)
(* serves one request on it.                                               *)
Fresh == resp = ListBlank

NextList ==
    \/ \E v \in Viewers, param \in PageParams :
          Fresh /\ MainPostListView(v, param)
    \/ \E v \in Viewers, slug \in Slugs, param \in PageParams :
          Fresh /\ CategoryPostListView(v, slug, param)
    \/ \E v \in Viewers, username \in Usernames, param \in PageParams :
          Fresh /\ UserPostsListView(v, username, param)

SpecList == InitList /\ [][NextList]_vars

----------------------------------------------------------------------------
(* Specifications of the small store *)

InitStore(traced) ==
    /\ posts = << >>
    /\ comments = << >>
    /\ nextPostId = 1
    /\ nextCommentId = 1
    /\ sent = 0
    /\ now = 0
    /\ trace = traced
    /\ resp = Blank

(* Post ids a request may name: every id given out so far and the next,    *)
(* which no post has yet.                                                  *)
PostIds == 1..nextPostId

(* The clock advances between requests. *)
Tick ==
    /\ now < MaxTime
    /\ now' = now + 1
    /\ resp' = Blank
    /\ UNCHANGED <<posts, comments, nextPostId, nextCommentId, sent, trace>>

(* The routes that write, and the clock *)
NextStore ==
    \/ Tick
    \/ \E v \in Viewers, inp \in FormInputs : PostCreateView(v, inp)
    \/ \E v \in Viewers, id \in PostIds, inp \in FormInputs : PostUpdateView(v, id, inp)
    \/ \E v \in Viewers, id \in PostIds, m \in {"GET", "POST"} : PostDeleteView(v, id, m)
    \/ \E v \in Viewers, id \in PostIds, inp \in FormInputs : CommentCreateView(v, id, inp)

Next ==
    \/ NextStore
    \/ \E v \in Viewers, id \in PostIds : PostDetailView(v, id)

SpecDetail == InitStore({"detail"}) /\ [][Next]_vars
SpecPost == InitStore({"update", "delete"}) /\ [][NextStore]_vars
SpecComment == InitStore({"comment"}) /\ [][NextStore]_vars

----------------------------------------------------------------------------
(* Properties *)

(* The published predicate of the data model: the post's own flag, its     *)
(* date against the clock, and its category's flag.                        *)
IsPublic(p, t) == p.is_published /\ p.pub_date <= t /\ Category[p.category]

Pks(qs) == { qs[i].pk : i \in 1..Len(qs) }

(* C1: a post is in post_published_query() exactly when it is published,   *)
(* dated at or before the clock and in a published category; the result    *)
(* is part of post_all_query().                                            *)
C1_PublishedQuery ==
    (resp.view = "home" /\ resp.status = "ok") =>
        /\ \A id \in DOMAIN posts :
              id \in Pks(resp.queryset) <=> IsPublic(posts[id], now)
        /\ \A tb \in TieBreaks : Range(resp.queryset) \subseteq Range(post_all_query(tb))
        /\ Cardinality(Pks(resp.queryset)) = Len(resp.queryset)

(* The home list holds the post dated at the instant of the request and    *)
(* leaves out a scheduled post.                                            *)
C1_Witness ==
    /\ resp.view = "home"
    /\ \E id \in Pks(resp.queryset) : posts[id].pub_date = now
    /\ \E id \in DOMAIN posts : posts[id].pub_date > now /\ id \notin Pks(resp.queryset)
    /\ \E id \in DOMAIN posts : ~Category[posts[id].category]

(* C2: the detail route returns the post's page exactly when the viewer    *)
(* is its author or the post is public; otherwise, and for an id no post   *)
(* has, the response is not-found.                                         *)
C2_DetailVisibility ==
    resp.view = "detail" =>
        IF /\ resp.post \in DOMAIN posts
           /\ \/ resp.viewer = posts[resp.post].author
              \/ IsPublic(posts[resp.post], resp.t)
        THEN resp.status = "ok" /\ resp.object.pk = resp.post
        ELSE resp.status = "notfound"

(* A signed-in user who is not the author is refused a post that is not    *)
(* public.                                                                 *)
C2_Witness ==
    /\ resp.view = "detail"
    /\ resp.post \in DOMAIN posts
    /\ resp.viewer \in Users
    /\ resp.viewer # posts[resp.post].author
    /\ ~IsPublic(posts[resp.post], resp.t)
    /\ resp.status = "notfound"

(* C3: a comment-creation request on a post that is not public ends in     *)
(* not-found for every viewer, stores no comment and sends no              *)
(* notification; every comment that comes to be stored is stored while     *)
(* its post is public.                                                     *)
C3_CommentGuard ==
    [][ /\ ( /\ resp'.view = "comment"
             /\ resp'.post \in DOMAIN posts
             /\ ~IsPublic(posts[resp'.post], now) )
           => ( /\ resp'.status = "notfound"
                /\ comments' = comments
                /\ sent' = sent )
        /\ \A c \in DOMAIN comments' \ DOMAIN comments :
              /\ comments'[c].post \in DOMAIN posts
              /\ IsPublic(posts[comments'[c].post], now)
      ]_vars

(* The author posts a valid comment on their own post that is not public   *)
(* and gets not-found.                                                     *)
C3_Witness ==
    /\ resp.view = "comment"
    /\ resp.post \in DOMAIN posts
    /\ resp.viewer = posts[resp.post].author
    /\ resp.method = "POST" /\ resp.valid
    /\ ~IsPublic(posts[resp.post], now)
    /\ resp.status = "notfound"

(* C4: an update or delete request by a signed-in user who is not the      *)
(* post's author changes no post and no comment and is redirected to the   *)
(* post's detail page, whatever the method and the form data; a post is    *)
(* changed or deleted only by a request of its author.                     *)
C4_OwnerOnly ==
    [][ /\ ( /\ resp'.view \in {"update", "delete"}
             /\ resp'.viewer \in Users
             /\ resp'.post \in DOMAIN posts
             /\ posts[resp'.post].author # resp'.viewer )
           => ( /\ posts' = posts
                /\ comments' = comments
                /\ resp'.status = "redirect"
                /\ resp'.target = DetailUrl(resp'.post) )
        /\ \A id \in DOMAIN posts :
              (id \notin DOMAIN posts' \/ posts'[id] # posts[id])
              => ( /\ resp'.view \in {"update", "delete"}
                   /\ resp'.post = id
                   /\ resp'.viewer = posts[id].author )
      ]_vars

(* A signed-in user who is not the author posts valid data to the update   *)
(* route and is sent to the detail page.                                   *)
C4_Witness ==
    /\ resp.view = "update"
    /\ resp.method = "POST" /\ resp.valid
    /\ resp.viewer \in Users
    /\ resp.post \in DOMAIN posts
    /\ posts[resp.post].author # resp.viewer
    /\ resp.status = "redirect"
    /\ resp.target = DetailUrl(resp.post)

(* C5: an anonymous request to the update or delete route of an existing   *)
(* post is redirected to the login page.                                   *)
C5_AnonymousToLogin ==
    ( /\ resp.view \in {"update", "delete"}
      /\ resp.viewer = Anonymous
      /\ resp.post \in DOMAIN posts )
    => (resp.status = "redirect" /\ resp.target = LoginUrl)

(* The last page of a list of n rows *)
LastPage(n) == IF n = 0 THEN 1 ELSE (n + PerPage - 1) \div PerPage

(* The rows of page k of a list *)
RowsOfPage(qs, k) == SubSeq(qs, PerPage * (k - 1) + 1, Min(PerPage * k, Len(qs)))

Clamp(k, n) == IF k < 1 THEN 1 ELSE IF k > LastPage(n) THEN LastPage(n) ELSE k

(* C6 as claimed: the page is 1 when the parameter is absent or no         *)
(* integer, and otherwise the requested number clamped to the nearest      *)
(* valid page; it holds rows 10(k-1)+1 .. min(10k, n).                      *)
C6_ClampNearest ==
    (resp.view \in {"home", "category", "profile"} /\ resp.status = "ok") =>
        LET n == Len(resp.queryset)
            int == ParseInt(resp.param.text)
            k == IF ~resp.param.present \/ ~int.ok THEN 1 ELSE Clamp(int.value, n)
        IN  /\ resp.page_obj.number = k
            /\ resp.page_obj.object_list = RowsOfPage(resp.queryset, k)
            /\ Len(resp.page_obj.object_list) <= PerPage

(* C6 amended: the page is 1 when the parameter is absent or no integer,   *)
(* the last page when the number is below 1 or above the last page, and    *)
(* the requested number otherwise; it holds rows 10(k-1)+1 .. min(10k, n). *)
C6_ClampLast ==
    (resp.view \in {"home", "category", "profile"}) =>
        /\ resp.status \in {"ok", "notfound"}
        /\ resp.status = "ok" =>
            LET n == Len(resp.queryset)
                int == ParseInt(resp.param.text)
                k == IF ~resp.param.present \/ ~int.ok THEN 1
                     ELSE IF int.value < 1 \/ int.value > LastPage(n) THEN LastPage(n)
                     ELSE int.value
            IN  /\ resp.page_obj.number = k
                /\ resp.page_obj.num_pages = LastPage(n)
                /\ resp.page_obj.object_list = RowsOfPage(resp.queryset, k)
                /\ Len(resp.page_obj.object_list) <= PerPage

(* A number below 1 on a list of three pages gives the third page, which   *)
(* is not full.                                                            *)
C6_Witness ==
    /\ resp.view = "home"
    /\ resp.param.present
    /\ ParseInt(resp.param.text).ok
    /\ ParseInt(resp.param.text).value < 1
    /\ resp.page_obj.num_pages = 3
    /\ resp.page_obj.number = 3
    /\ Len(resp.page_obj.object_list) \in 1..(PerPage - 1)

OthersComments == { c \in DOMAIN comments : comments[c].author # posts[comments[c].post].author }

(* C7 as claimed: the number of notifications sent equals the number of    *)
(* stored comments whose author is not their post's author.                *)
C7_SentEqualsStored == sent = Cardinality(OthersComments)

(* C7 amended: a comment created by a user other than the post's author    *)
(* sends one notification, to the author's address and with the post's     *)
(* title; a comment created by the author sends none; nothing else sends   *)
(* one.  So the number sent equals the number of comments created so far,  *)
(* stored or deleted since, whose author is not their post's author.       *)
C7_OnePerOthersComment ==
    [][ LET new == DOMAIN comments' \ DOMAIN comments
            byOthers == { c \in new : comments'[c].author # posts[comments'[c].post].author }
        IN  /\ sent' = sent + Cardinality(byOthers)
            /\ \A c \in new :
                  /\ resp'.view = "comment"
                  /\ resp'.post = comments'[c].post
                  /\ resp'.viewer = comments'[c].author
                  /\ IF c \in byOthers
                     THEN /\ resp'.mail.to = Email(posts[resp'.post].author)
                          /\ resp'.mail.title = posts[resp'.post].title
                          /\ resp'.mail.post = resp'.post
                     ELSE resp'.mail = NoMail
      ]_vars

(* A user comments on another user's post whose title is t2: one           *)
(* notification.                                                           *)
C7_Witness ==
    /\ resp.view = "comment"
    /\ resp.status = "redirect"
    /\ resp.post \in DOMAIN posts
    /\ resp.viewer # posts[resp.post].author
    /\ resp.mail.title = "t2"
    /\ sent = 1

(* C8: when the mail transport fails during a valid comment creation, the  *)
(* comment is stored all the same, with the requesting user as author and  *)
(* the target post, and the response is the redirect to the detail page.   *)
C8_MailFailureSwallowed ==
    ( /\ resp.view = "comment"
      /\ resp.mail # NoMail
      /\ ~resp.mail.delivered )
    => ( /\ resp.status = "redirect"
         /\ resp.target = DetailUrl(resp.post)
         /\ nextCommentId - 1 \in DOMAIN comments
         /\ comments[nextCommentId - 1] = [post |-> resp.post, author |-> resp.viewer] )

(* The transport failed and the comment is there. *)
C8_Witness ==
    /\ resp.view = "comment"
    /\ resp.method = "POST" /\ resp.valid
    /\ resp.mail # NoMail
    /\ ~resp.mail.delivered
    /\ resp.status = "redirect"
    /\ \E c \in DOMAIN comments : comments[c].author = resp.viewer

RECURSIVE RowsOnPages(_, _)
RowsOnPages(qs, k) ==
    IF k = 0 THEN 0
    ELSE Len(Page(qs, k, PerPage).object_list) + RowsOnPages(qs, k - 1)

(* C9: the profile route lists all posts of the user when the viewer is    *)
(* that user, and the user's public posts for any other viewer;            *)
(* total_posts is their number, which is also the number of rows on all    *)
(* the pages together; an unknown username ends in not-found.              *)
C9_ProfileList ==
    resp.view = "profile" =>
        IF resp.name \notin Users
        THEN resp.status = "notfound"
        ELSE LET shown == { id \in DOMAIN posts :
                              /\ posts[id].author = resp.name
                              /\ resp.viewer = resp.name \/ IsPublic(posts[id], now) }
             IN  /\ resp.status = "ok"
                 /\ Pks(resp.queryset) = shown
                 /\ Len(resp.queryset) = Cardinality(shown)
                 /\ resp.total_posts = Cardinality(shown)
                 /\ resp.total_posts = RowsOnPages(resp.queryset, resp.page_obj.num_pages)

(* The owner's profile: posts that are not public are counted, and the     *)
(* list runs over more than one page.                                      *)
C9_Witness ==
    /\ resp.view = "profile"
    /\ resp.viewer = resp.name
    /\ resp.status = "ok"
    /\ \E id \in Pks(resp.queryset) : ~IsPublic(posts[id], now)
    /\ resp.page_obj.num_pages >= 2
    /\ resp.total_posts > PerPage

(* C10: a rendered detail page carries the comment form exactly when the   *)
(* post is public, whoever the viewer is; that is exactly when             *)
(* get_post_data accepts the post.                                         *)
C10_FormIffPublic ==
    (resp.view = "detail" /\ resp.status = "ok") =>
        /\ resp.flag <=> IsPublic(posts[resp.post], now)
        /\ resp.flag <=> get_post_data(resp.post, now).found

(* The author sees their own post in an unpublished category, without the  *)
(* form.                                                                   *)
C10_Witness ==
    /\ resp.view = "detail"
    /\ resp.status = "ok"
    /\ resp.viewer = posts[resp.post].author
    /\ posts[resp.post].is_published
    /\ posts[resp.post].pub_date <= now
    /\ ~resp.flag

====
